---------------------------- MODULE Spec2Model ----------------------------
(***************************************************************************)
(* A model of ott.tools.plot.Plot (src/src/ott/tools/plot.py): the         *)
(* coupling-to-geometry mapper Plot._mapping, and the Plot object with     *)
(* its matplotlib axes as a state machine driven by __call__, update and   *)
(* animate.                                                                *)
(*                                                                         *)
(* Numbers.  Matrix entries, the threshold and point coordinates are       *)
(* integers (read as the floats 0.0, 1.0, ...).  Marginal weights, alphas  *)
(* and line widths are exact rationals, kept as normalised pairs           *)
(* <<numerator, denominator>>; floating-point rounding is not modelled.    *)
(* Indices are 1-based here and 0-based in the source.                     *)
(***************************************************************************)
EXTENDS Integers, Sequences, FiniteSets, TLC

VARIABLES
  threshold,                \* self._threshold
  scale,                    \* self._scale
  show_lines,               \* self._show_lines
  scale_alpha_by_coupling,  \* self._scale_alpha_by_coupling
  alpha,                    \* self._alpha (a rational)
  points_x,                 \* self._points_x: None, or <<an index into ax_collections>>
  points_y,                 \* self._points_y: None, or <<an index into ax_collections>>
  lines,                    \* self._lines: a sequence of indices into ax_lines
  ax_collections,           \* self.ax.collections: the scatter sets on the axes
  ax_lines,                 \* self.ax.lines: the Line2D artists on the axes
  ax_legend,                \* whether self.ax carries a legend
  anim,                     \* the FuncAnimation made by animate, or None
  op,                       \* history: the last operation invoked
  ot,                       \* history: the transport passed to it
  raised,                   \* history: the exception it raised, or "none"
  new_lines,                \* history: what its call of _mapping returned
  ot0,                      \* history: marginals of the last transport scattered by __call__
  ncalls                    \* history: number of __call__ invocations so far

vars == <<threshold, scale, show_lines, scale_alpha_by_coupling, alpha,
          points_x, points_y, lines, ax_collections, ax_lines, ax_legend,
          anim, op, ot, raised, new_lines, ot0, ncalls>>

config == <<threshold, scale, show_lines, scale_alpha_by_coupling, alpha>>

artists == <<points_x, points_y, lines, ax_collections, ax_lines, ax_legend>>

\* None, for a field that holds either None or a value v, kept as <<v>>.
None == <<>>

-----------------------------------------------------------------------------
(* Bounds of the model. *)

\* _mapping is explored on every matrix of at most this many entries.
MaxCells == 6

\* The Plot object is driven with matrices of at most this many entries.
MaxPlotCells == 2

\* __call__ is invoked at most this many times on one Plot.
MaxCalls == 1

\* The axes hold at most this many Line2D artists: lines dropped from
\* self._lines stay on the axes, so their number grows without bound.
MaxLines == 2

\* An animation has at most this many frames.
MaxFrames == 2

-----------------------------------------------------------------------------
(* Exact rational arithmetic. *)

Abs(k) == IF k < 0 THEN -k ELSE k

RECURSIVE GCD(_, _)
GCD(p, q) == IF q = 0 THEN p ELSE GCD(q, p % q)

\* The rational n/d (d # 0) in lowest terms with a positive denominator.
Rat(n, d) ==
  LET g == GCD(Abs(n), Abs(d))
      s == IF d < 0 THEN -1 ELSE 1
  IN  <<(s * n) \div g, (s * d) \div g>>

RMul(p, q) == Rat(p[1] * q[1], p[2] * q[2])
RAdd(p, q) == Rat(p[1] * q[2] + q[1] * p[2], p[2] * q[2])
RLe(p, q) == p[1] * q[2] <= q[1] * p[2]
RLt(p, q) == p[1] * q[2] < q[1] * p[2]

RECURSIVE SeqMin(_)
SeqMin(s) ==
  IF Len(s) = 1 THEN s[1]
  ELSE LET r == SeqMin(Tail(s)) IN IF s[1] < r THEN s[1] ELSE r

RECURSIVE SeqMax(_)
SeqMax(s) ==
  IF Len(s) = 1 THEN s[1]
  ELSE LET r == SeqMax(Tail(s)) IN IF s[1] > r THEN s[1] ELSE r

-----------------------------------------------------------------------------
(* Transports: the inputs of the model. *)

\* ot.a, ot.b: the uniform marginal and a skewed one, both summing to 1.
Uniform(n) == [i \in 1..n |-> Rat(1, n)]
Skewed(n) == [i \in 1..n |-> Rat(IF i = 1 THEN n + 1 ELSE 1, 2 * n)]
Weights(n, g) == IF g = 1 THEN Uniform(n) ELSE Skewed(n)

\* ot.geom.x, ot.geom.y: two-dimensional point batches, all points distinct.
\* A transport comes in one of the variants g: a placement of the points
\* together with a choice of marginals.
Variants == {1, 2}
XPoints(n, g) == [i \in 1..n |-> <<i * g, 10 + i>>]
YPoints(m, g) == [j \in 1..m |-> <<20 + j, 30 + g * j>>]

Shapes(cells) == {s \in (1..cells) \X (1..cells) : s[1] * s[2] <= cells}
Matrices(s, values) == [1..s[1] -> [1..s[2] -> values]]

PointCloudTransports(cells, values, variants) ==
  { [geom |-> "PointCloud", x |-> XPoints(s[1], g), y |-> YPoints(s[2], g),
     a |-> Weights(s[1], g), b |-> Weights(s[2], g), matrix |-> mat] :
    <<s, g, mat>> \in
      { t \in Shapes(cells) \X variants \X UNION {Matrices(s, values) : s \in Shapes(cells)} :
          /\ Len(t[3]) = t[1][1]
          /\ Len(t[3][1]) = t[1][2] } }

\* A transport whose geometry is not a PointCloud (a cost-matrix Geometry):
\* it has no points.
GeometryTransport ==
  [geom |-> "Geometry", x |-> <<>>, y |-> <<>>,
   a |-> Uniform(1), b |-> Uniform(1), matrix |-> <<<<1>>>>]

\* Entries of the matrices _mapping is explored on: a zero entry, a small one
\* and an artificially large one.
MappingValues == {0, 1, 1000000}
MappingThresholds == {-1, 0, 1}
\* Base alphas: inside [0, 1], on its borders and outside it.
MappingAlphas == {Rat(-1, 2), Rat(7, 10), Rat(1, 1), Rat(3, 2)}

\* Entries, thresholds and alphas the Plot object is driven with.
PlotValues == {0, 1}
PlotThresholds == {-1, 0}
PlotAlphas == {Rat(7, 10)}
PlotTransports ==
  PointCloudTransports(MaxPlotCells, PlotValues, Variants) \cup {GeometryTransport}

-----------------------------------------------------------------------------
(* Plot._mapping, lines 105-135. *)

\* The test of line 108: matrix > self._threshold, for one entry.
AboveOrEqual(entry) == entry >= threshold
Above(entry) == entry > threshold

\* jnp.where(matrix > self._threshold): the selected index pairs <<u, v>>,
\* in row-major order.
Where(matrix) ==
  LET n == Len(matrix)
      m == Len(matrix[1])
      idx == [k \in 1..(n * m) |-> <<((k - 1) \div m) + 1, ((k - 1) % m) + 1>>]
  IN  SelectSeq(idx, LAMBDA p : Above(matrix[p[1]][p[2]]))

\* Line 122: jnp.max(jnp.array(matrix.shape)) * c[i].
StrengthByRows(matrix, ci) == Len(matrix) * ci
Strength(matrix, ci) ==
  LET n == Len(matrix)
      m == Len(matrix[1])
  IN  (IF n > m THEN n ELSE m) * ci

\* Lines 123-127: the alpha of an entry ci before clipping; scaled is the
\* local scale_alpha_by_coupling after line 118.
AlphaNoOffset(ci, scaled, min_matrix, max_matrix) ==
  IF scaled
  THEN RMul(alpha, Rat(ci, max_matrix - min_matrix))
  ELSE alpha
AlphaOf(ci, scaled, min_matrix, max_matrix) ==
  IF scaled
  THEN RMul(alpha, Rat(ci - min_matrix, max_matrix - min_matrix))
  ELSE alpha

\* np.clip(a, lo, hi), line 130.
np_clip_nothing(a, lo, hi) == a
np_clip(a, lo, hi) == IF RLt(a, lo) THEN lo ELSE IF RLt(hi, a) THEN hi ELSE a

\* Line 132: start, end = xy[i, [0, 2]], xy[i, [1, 3]], for one row of xy.
SegmentOfPoints(row) ==
  [start |-> <<row[1], row[2]>>, end |-> <<row[3], row[4]>>]
Segment(row) ==
  [start |-> <<row[1], row[3]>>, end |-> <<row[2], row[4]>>]

\* _mapping(x, y, matrix): [raised, result].  jnp.min of an empty array
\* raises ValueError ("zero-size array to reduction operation min which has
\* no identity"), so line 117 raises when nothing is selected.
Mapping(x, y, matrix) ==
  LET uv == Where(matrix)
      c  == [k \in 1..Len(uv) |-> matrix[uv[k][1]][uv[k][2]]]
      xy == [k \in 1..Len(uv) |-> x[uv[k][1]] \o y[uv[k][2]]]
  IN  IF scale_alpha_by_coupling /\ Len(c) = 0
      THEN [raised |-> "ValueError", result |-> <<>>]
      ELSE
        LET min_matrix == SeqMin(c)
            max_matrix == SeqMax(c)
            scaled == scale_alpha_by_coupling /\ max_matrix # min_matrix
        IN  [raised |-> "none",
             result |->
               [k \in 1..Len(xy) |->
                  [start |-> Segment(xy[k]).start,
                   end |-> Segment(xy[k]).end,
                   strength |-> Strength(matrix, c[k]),
                   alpha |-> np_clip(AlphaOf(c[k], scaled, min_matrix, max_matrix),
                                     Rat(0, 1), Rat(1, 1))]]]

-----------------------------------------------------------------------------
(* The specification of _mapping as a function: a Plot is constructed, an *)
(* input is drawn, and _mapping is applied to it.                          *)

InitMapping ==
  /\ threshold \in MappingThresholds
  /\ scale = 200
  /\ show_lines = TRUE
  /\ scale_alpha_by_coupling \in BOOLEAN
  /\ alpha \in MappingAlphas
  /\ points_x = None
  /\ points_y = None
  /\ lines = <<>>
  /\ ax_collections = <<>>
  /\ ax_lines = <<>>
  /\ ax_legend = FALSE
  /\ anim = None
  /\ op = "pending"
  /\ ot \in PointCloudTransports(MaxCells, MappingValues, {1})
  /\ raised = "none"
  /\ new_lines = <<>>
  /\ ot0 = None
  /\ ncalls = 0

MappingStep ==
  /\ op = "pending"
  /\ LET r == Mapping(ot.x, ot.y, ot.matrix)
     IN  /\ raised' = r.raised
         /\ new_lines' = r.result
  /\ op' = "_mapping"
  /\ UNCHANGED <<config, artists, anim, ot, ot0, ncalls>>

NextMapping == MappingStep

SpecMapping == InitMapping /\ [][NextMapping]_vars

-----------------------------------------------------------------------------
(* The Plot object and its axes. *)

\* bidimensional(x, y), lines 36-45.  Every batch of the model has points of
\* dimension 2, so that line 39 holds and the inputs are returned.
bidimensional(x, y) == <<x, y>>

\* _scatter(ot), lines 93-103: raises when the geometry is not a PointCloud,
\* else the positions and the marker sizes a * scale * n, b * scale * m.
ScatterRaises(t) == t.geom # "PointCloud"
Scatter(t) ==
  LET xy == bidimensional(t.x, t.y)
  IN  [x |-> xy[1],
       y |-> xy[2],
       scales_x |-> [i \in 1..Len(t.a) |->
                       RMul(RMul(t.a[i], Rat(scale, 1)), Rat(Len(t.a), 1))],
       scales_y |-> [j \in 1..Len(t.b) |->
                       RMul(RMul(t.b[j], Rat(scale, 1)), Rat(Len(t.b), 1))]]

\* cmap(strength): a matplotlib colormap clips a float to [0, 1] and looks
\* it up in a table of 256 colours; the colour is kept as its table index.
Cmap(strength) ==
  IF strength <= 0 THEN 0 ELSE IF strength >= 1 THEN 255 ELSE strength * 256

\* self.ax.plot(start, end, linewidth=0.5 + 4 * strength, color=cmap(strength),
\* zorder=0, alpha=alpha): the Line2D made for one edge (lines 154-161 and
\* 189-196).
Line2D(edge) ==
  [xdata |-> edge.start,
   ydata |-> edge.end,
   linewidth |-> RAdd(Rat(1, 2), Rat(4 * edge.strength, 1)),
   color |-> Cmap(edge.strength),
   zorder |-> 0,
   alpha |-> edge.alpha]

\* Lines 178-181: an existing line is given the data of a new edge.
SetLine(line, edge) ==
  [line EXCEPT !.xdata = edge.start,
               !.ydata = edge.end,
               !.linewidth = RAdd(Rat(1, 2), Rat(4 * edge.strength, 1)),
               !.color = Cmap(edge.strength),
               !.alpha = edge.alpha]

\* __call__(ot), lines 137-163, for the history of the invocation see Call.
DrawTransport(t) ==
  IF ScatterRaises(t)
  THEN /\ raised' = "ValueError"
       /\ new_lines' = <<>>
       /\ UNCHANGED <<artists, ot0, ncalls>>
  ELSE
    \E s \in {Scatter(t)} :
        /\ ax_collections' = ax_collections \o
             << [offsets |-> s.x, sizes |-> s.scales_x, marker |-> "o"],
                [offsets |-> s.y, sizes |-> s.scales_y, marker |-> "X"] >>
        /\ points_x' = <<Len(ax_collections) + 1>>
        /\ points_y' = <<Len(ax_collections) + 2>>
        /\ ax_legend' = TRUE
        /\ ot0' = <<[a |-> t.a, b |-> t.b]>>
        /\ ncalls' = ncalls + 1
        /\ IF ~show_lines
           THEN /\ raised' = "none"
                /\ new_lines' = <<>>
                /\ UNCHANGED <<lines, ax_lines>>
           ELSE
             \E r \in {Mapping(s.x, s.y, t.matrix)} :
                 /\ raised' = r.raised
                 /\ new_lines' = r.result
                 /\ IF r.raised # "none"
                    THEN UNCHANGED <<lines, ax_lines>>
                    ELSE /\ ax_lines' = ax_lines \o
                              [k \in 1..Len(r.result) |-> Line2D(r.result[k])]
                         /\ lines' = [k \in 1..Len(r.result) |-> Len(ax_lines) + k]

\* Plot.__call__ invoked with the transport t.  Every __call__ that gets
\* past _scatter adds artists to the axes: their number is bounded.
Call(t) ==
  /\ anim = None
  /\ ScatterRaises(t) \/ ncalls < MaxCalls
  /\ op' = "__call__"
  /\ ot' = t
  /\ DrawTransport(t)
  /\ Len(ax_lines') <= MaxLines
  /\ UNCHANGED <<config, anim>>

\* Lines 168-169: set_offsets on both scatter sets; s is what _scatter
\* returned.
MovePointsAndResize(s) ==
  ax_collections' = [ax_collections EXCEPT ![points_x[1]].offsets = s.x,
                                           ![points_x[1]].sizes = s.scales_x,
                                           ![points_y[1]].offsets = s.y,
                                           ![points_y[1]].sizes = s.scales_y]
MovePoints(s) ==
  ax_collections' = [ax_collections EXCEPT ![points_x[1]].offsets = s.x,
                                           ![points_y[1]].offsets = s.y]

\* update(ot) from line 168 on, _scatter having returned.
UpdateArtists(t) ==
  IF points_x = None
  THEN \* self._points_x is None, and None has no set_offsets.
       /\ raised' = "AttributeError"
       /\ new_lines' = <<>>
       /\ UNCHANGED artists
  ELSE
    \E s \in {Scatter(t)} :
        /\ MovePoints(s)
        /\ UNCHANGED <<points_x, points_y, ax_legend>>
        /\ IF ~show_lines
           THEN /\ raised' = "none"
                /\ new_lines' = <<>>
                /\ UNCHANGED <<lines, ax_lines>>
           ELSE
             \E r \in {Mapping(s.x, s.y, t.matrix)} :
             LET num_lines == Len(lines)
                 num_to_plot == Len(r.result)
                 zipped == IF num_lines < num_to_plot THEN num_lines ELSE num_to_plot
                 \* Lines 175-181: the lines in place take the new edges.
                 updated ==
                   [id \in 1..Len(ax_lines) |->
                      IF \E k \in 1..zipped : lines[k] = id
                      THEN SetLine(ax_lines[id],
                                   r.result[CHOOSE k \in 1..zipped : lines[k] = id])
                      ELSE ax_lines[id]]
                 \* Lines 184-197: the edges beyond them get lines of their own.
                 added ==
                   [k \in 1..(num_to_plot - zipped) |-> Line2D(r.result[num_lines + k])]
                 tracked ==
                   lines \o [k \in 1..(num_to_plot - zipped) |-> Len(ax_lines) + k]
             IN  /\ raised' = r.raised
                 /\ new_lines' = r.result
                 /\ IF r.raised # "none"
                    THEN UNCHANGED <<lines, ax_lines>>
                    ELSE /\ ax_lines' = updated \o added
                         \* Line 199: self._lines = self._lines[:num_to_plot].
                         /\ lines' = SubSeq(tracked, 1, num_to_plot)

\* update(ot), lines 165-200, for the history of the invocation see Update.
UpdateTransportClearsFirst(t) ==
  IF ScatterRaises(t)
  THEN /\ raised' = "ValueError"
       /\ new_lines' = <<>>
       /\ lines' = <<>>
       /\ UNCHANGED <<points_x, points_y, ax_collections, ax_lines, ax_legend>>
  ELSE UpdateArtists(t)
UpdateTransport(t) ==
  IF ScatterRaises(t)
  THEN /\ raised' = "ValueError"
       /\ new_lines' = <<>>
       /\ UNCHANGED artists
  ELSE UpdateArtists(t)

\* Plot.update invoked with the transport t, by the user of a Plot that is
\* not animated.
Update(t) ==
  /\ anim = None
  /\ op' = "update"
  /\ ot' = t
  /\ UpdateTransport(t)
  /\ Len(ax_lines') <= MaxLines
  /\ UNCHANGED <<config, ot0, ncalls, anim>>

\* animate(transports), lines 202-216: draws transports[0] and hands the
\* frames to a FuncAnimation.  When __call__ raises, so does animate, and no
\* animation is made.  frame is 0 while init_func is due, else the index of
\* the frame that is due.
Animate(transports) ==
  /\ anim = None
  /\ ScatterRaises(transports[1]) \/ ncalls < MaxCalls
  /\ op' = "__call__"
  /\ ot' = transports[1]
  /\ DrawTransport(transports[1])
  /\ Len(ax_lines') <= MaxLines
  /\ anim' = IF raised' = "none"
             THEN <<[transports |-> transports, frame |-> 0]>>
             ELSE None
  /\ UNCHANGED config

\* The FuncAnimation calls init_func, update(transports[0]), then the frame
\* function, update(transports[i]), for each frame in turn, and starts over
\* (repeat is on by default).
AnimationStep ==
  /\ anim # None
  /\ LET transports == anim[1].transports
         frame == anim[1].frame
         t == IF frame = 0 THEN transports[1] ELSE transports[frame]
     IN  /\ op' = "update"
         /\ ot' = t
         /\ UpdateTransport(t)
         /\ anim' = <<[anim[1] EXCEPT !.frame = (frame + 1) % (Len(transports) + 1)]>>
  /\ Len(ax_lines') <= MaxLines
  /\ UNCHANGED <<config, ot0, ncalls>>

FrameSequences == UNION {[1..n -> PlotTransports] : n \in 1..MaxFrames}

\* Plot(...), lines 61-91: the state after construction, on fresh axes.
Init ==
  /\ threshold \in PlotThresholds
  /\ scale = 200
  /\ show_lines \in BOOLEAN
  /\ scale_alpha_by_coupling \in BOOLEAN
  /\ alpha \in PlotAlphas
  /\ points_x = None
  /\ points_y = None
  /\ lines = <<>>
  /\ ax_collections = <<>>
  /\ ax_lines = <<>>
  /\ ax_legend = FALSE
  /\ anim = None
  /\ op = "__init__"
  /\ ot = None
  /\ raised = "none"
  /\ new_lines = <<>>
  /\ ot0 = None
  /\ ncalls = 0

Next ==
  \/ \E t \in PlotTransports : Call(t)
  \/ \E t \in PlotTransports : Update(t)
  \/ \E transports \in FrameSequences : Animate(transports)
  \/ AnimationStep

Spec == Init /\ [][Next]_vars

-----------------------------------------------------------------------------
(* What the claims speak of, stated on the inputs and not through the     *)
(* definitions of _mapping above.                                          *)

\* _mapping has been applied to the transport ot.
Mapped == op = "_mapping"

Rows == Len(ot.matrix)
Cols == Len(ot.matrix[1])
Pairs == (1..Rows) \X (1..Cols)
Entry(p) == ot.matrix[p[1]][p[2]]
SelectedPairs == {p \in Pairs : Entry(p) > threshold}
SelectedValues == {Entry(p) : p \in SelectedPairs}
MinSelected == CHOOSE v \in SelectedValues : \A w \in SelectedValues : v <= w
MaxSelected == CHOOSE v \in SelectedValues : \A w \in SelectedValues : v >= w

\* The selected pairs as a sequence in row-major order: those of rank r and
\* beyond, the rank of (i, j) being (i - 1) * Cols + j.
Rank(p) == (p[1] - 1) * Cols + p[2]
PairOfRank(r) == <<((r - 1) \div Cols) + 1, ((r - 1) % Cols) + 1>>
RECURSIVE SelectedFrom(_)
SelectedFrom(r) ==
  IF r > Rows * Cols THEN <<>>
  ELSE (IF Entry(PairOfRank(r)) > threshold THEN <<PairOfRank(r)>> ELSE <<>>)
         \o SelectedFrom(r + 1)
SelectedInOrder == SelectedFrom(1)

\* The edges of the result that join the points x[i] and y[j].
EdgesJoining(p) ==
  {k \in 1..Len(new_lines) :
     /\ new_lines[k].start = <<ot.x[p[1]][1], ot.y[p[2]][1]>>
     /\ new_lines[k].end = <<ot.x[p[1]][2], ot.y[p[2]][2]>>}

Clamp01(r) == IF r[1] < 0 THEN <<0, 1>> ELSE IF r[1] > r[2] THEN <<1, 1>> ELSE r

\* C1: _mapping returns exactly one edge for each index pair whose entry is
\* strictly above the threshold, and no edge for any other pair (an entry
\* equal to the threshold is excluded).
C1_OneEdgePerEntryAboveThreshold ==
  Mapped =>
    /\ \A p \in Pairs :
         Cardinality(EdgesJoining(p)) = IF Entry(p) > threshold THEN 1 ELSE 0
    /\ Len(new_lines) = Cardinality(SelectedPairs)

\* C1 witness: threshold 0, a zero entry, a single entry above the threshold
\* and one edge returned.
C1_Witness ==
  /\ Mapped
  /\ raised = "none"
  /\ threshold = 0
  /\ \E p \in Pairs : Entry(p) = 0
  /\ Cardinality(SelectedPairs) = 1
  /\ Len(new_lines) = 1

\* C2: if no entry exceeds the threshold, _mapping returns the empty
\* sequence without raising, whatever scale_alpha_by_coupling is.
C2_EmptySelectionReturnsEmpty ==
  (Mapped /\ SelectedPairs = {}) => (raised = "none" /\ new_lines = <<>>)

\* C3 as stated: edges come in row-major order of the selected entries, and
\* the edge of the pair (i, j) has start = x[i] and end = y[j].
C3_StartIsXEndIsY ==
  Mapped =>
    LET sel == SelectedInOrder
    IN  /\ Len(new_lines) <= Len(sel)
        /\ \A k \in 1..Len(new_lines) :
             /\ new_lines[k].start = ot.x[sel[k][1]]
             /\ new_lines[k].end = ot.y[sel[k][2]]

\* C3 amended: edges come in row-major order of the selected entries, and
\* the edge of the pair (i, j) has start = (x[i][0], y[j][0]), the first
\* coordinates of the two points, and end = (x[i][1], y[j][1]), their second
\* coordinates.
C3_RowMajorCoordinatePairs ==
  Mapped =>
    LET sel == SelectedInOrder
    IN  /\ Len(new_lines) <= Len(sel)
        /\ \A k \in 1..Len(new_lines) :
             /\ new_lines[k].start = <<ot.x[sel[k][1]][1], ot.y[sel[k][2]][1]>>
             /\ new_lines[k].end = <<ot.x[sel[k][1]][2], ot.y[sel[k][2]][2]>>

\* C3 witness: a result of several edges taken from more than one row and
\* more than one column, with an unselected entry between them.
C3_Witness ==
  /\ Mapped
  /\ Len(new_lines) >= 3
  /\ \E p, q \in SelectedPairs : p[1] # q[1] /\ p[2] # q[2]
  /\ SelectedPairs # Pairs

\* C4: every edge returned has alpha within [0, 1].
C4_AlphaInUnitInterval ==
  Mapped =>
    \A k \in 1..Len(new_lines) :
      /\ RLe(<<0, 1>>, new_lines[k].alpha)
      /\ RLe(new_lines[k].alpha, <<1, 1>>)

\* C4 witness: a base alpha above 1, opacity scaling on, a large entry next
\* to small ones, and an edge whose alpha is clamped to 1.
C4_Witness ==
  /\ Mapped
  /\ scale_alpha_by_coupling
  /\ RLt(<<1, 1>>, alpha)
  /\ \E p, q \in SelectedPairs : Entry(p) = 1000000 /\ Entry(q) = 1
  /\ \E k \in 1..Len(new_lines) : new_lines[k].alpha = <<1, 1>>

\* C5: with opacity scaling requested and selected entries not all equal, the
\* alpha of the edge of an entry c is base alpha * (c - min) / (max - min),
\* min and max taken over the selected entries, clamped to [0, 1]; otherwise
\* every edge gets the base alpha, clamped.
C5_AlphaFormula ==
  Mapped =>
    LET sel == SelectedInOrder
        values == SelectedValues
        lo == MinSelected
        hi == MaxSelected
    IN  /\ Len(new_lines) <= Len(sel)
        /\ \A k \in 1..Len(new_lines) :
             new_lines[k].alpha =
               IF scale_alpha_by_coupling /\ Cardinality(values) > 1
               THEN Clamp01(RMul(alpha, Rat(Entry(sel[k]) - lo, hi - lo)))
               ELSE Clamp01(alpha)

\* C5 witness: scaling on, the matrix minimum is not selected, and the
\* selected entries differ.
C5_Witness ==
  /\ Mapped
  /\ scale_alpha_by_coupling
  /\ threshold = 0
  /\ \E p \in Pairs : Entry(p) = 0
  /\ SelectedValues = {1, 1000000}
  /\ alpha = Rat(7, 10)
  /\ \E k \in 1..Len(new_lines) : new_lines[k].alpha = Rat(7, 10)
  /\ \E k \in 1..Len(new_lines) : new_lines[k].alpha = Rat(0, 1)

\* C6: with a threshold below all entries of an n x m matrix there are n*m
\* edges, each of strength max(n, m) * M[i,j]; and among the edges returned
\* (for any threshold) a larger entry never gets a smaller strength or a
\* smaller alpha, so the largest entry has the largest strength and alpha.
C6_StrengthAndMonotonicity ==
  Mapped =>
    /\ (\A p \in Pairs : Entry(p) > threshold) =>
         /\ Len(new_lines) = Rows * Cols
         /\ \A p \in Pairs :
              new_lines[Rank(p)].strength =
                (IF Rows > Cols THEN Rows ELSE Cols) * Entry(p)
    /\ LET sel == SelectedInOrder
       IN  /\ Len(new_lines) <= Len(sel)
           /\ \A k, l \in 1..Len(new_lines) :
                Entry(sel[k]) >= Entry(sel[l]) =>
                  /\ new_lines[k].strength >= new_lines[l].strength
                  /\ RLe(new_lines[l].alpha, new_lines[k].alpha)

\* C6 witness: a 2 x 3 matrix with one dominant entry, threshold -1, opacity
\* scaling on with a base alpha in [0, 1]: six edges, and the dominant one
\* has a strictly larger alpha than another.
C6_Witness ==
  /\ Mapped
  /\ Rows = 2 /\ Cols = 3
  /\ threshold = -1
  /\ scale_alpha_by_coupling
  /\ alpha = Rat(7, 10)
  /\ Cardinality({p \in Pairs : Entry(p) = 1000000}) = 1
  /\ Len(new_lines) = 6
  /\ \E k, l \in 1..6 : RLt(new_lines[l].alpha, new_lines[k].alpha)

-----------------------------------------------------------------------------
(* The claims about the Plot object. *)

\* The last operation was a __call__ or an update (of the user or of an
\* animation), so that ot is its transport.
Invoked == op \in {"__call__", "update"}

\* C7: __call__ and update raise ValueError for a transport whose geometry
\* is not a PointCloud, and leave the point handles, the tracked lines and
\* the axes as they were.
C7_UnsupportedGeometryRaisesUnchanged ==
  [][ (op' \in {"__call__", "update"} /\ ot'.geom # "PointCloud") =>
        (raised' = "ValueError" /\ UNCHANGED artists) ]_vars

\* C7 witness: a drawn plot with lines, whose update with a Geometry
\* transport has raised.
C7_Witness ==
  /\ op = "update"
  /\ ot.geom = "Geometry"
  /\ raised = "ValueError"
  /\ points_x # None
  /\ Len(lines) > 0

\* C8: with show_lines, after an initial __call__ and any updates, the
\* tracked lines are as many as the last transport has entries above the
\* threshold, and the k-th carries the data of its k-th edge, as a fresh
\* __call__ would draw it.
C8_TrackedLinesAreThoseOfLastTransport ==
  (Invoked /\ show_lines /\ ncalls >= 1 /\ ot.geom = "PointCloud") =>
    /\ Len(lines) = Cardinality(SelectedPairs)
    /\ \E r \in {Mapping(ot.x, ot.y, ot.matrix)} :
         \A k \in 1..Len(lines) :
           /\ k <= Len(r.result)
           /\ ax_lines[lines[k]] = Line2D(r.result[k])

\* C9: after an initial __call__ and any updates, the lines on the axes are
\* exactly the tracked lines.
C9_AxesLinesAreTracked ==
  (Invoked /\ ncalls = 1) =>
    {lines[k] : k \in 1..Len(lines)} = 1..Len(ax_lines)

\* C10: after __call__(ot0) and any updates, the marker sizes of the two
\* scatter sets are still a0 * scale * n and b0 * scale * m.
C10_SizesAreThoseOfCall ==
  points_x # None =>
    LET a0 == ot0[1].a
        b0 == ot0[1].b
    IN  /\ ax_collections[points_x[1]].sizes =
             [i \in 1..Len(a0) |-> Rat(a0[i][1] * scale * Len(a0), a0[i][2])]
        /\ ax_collections[points_y[1]].sizes =
             [j \in 1..Len(b0) |-> Rat(b0[j][1] * scale * Len(b0), b0[j][2])]

\* C10 witness: an update has moved the points to those of a transport with
\* other marginal weights than the one drawn.
C10_Witness ==
  /\ op = "update"
  /\ raised = "none"
  /\ ot.geom = "PointCloud"
  /\ Len(ot.a) = Len(ot0[1].a)
  /\ ot.a # ot0[1].a
  /\ ax_collections[points_x[1]].offsets = ot.x
  /\ ax_collections[points_x[1]].sizes # Scatter(ot).scales_x

=============================================================================
